---- MODULE Spec2Model ----
(***************************************************************************)
(* Model of scraper/scrape_nsaa_volleyball.py: the driver main(), which    *)
(* fetches six classification pages in a fixed order and merges what       *)
(* parse_class_page() extracts from each, and parse_class_page() itself,   *)
(* stepped caption by caption and row by row.                              *)
(*                                                                         *)
(* A document is the sequence of its captioned tables in document order;   *)
(* a table is [caption, rows], a row (tr) is the sequence of its cells,    *)
(* a cell is [tag, text, cap] with tag "th" or "td" and cap the text of a   *)
(* caption element lying in the cell before its own text (<<>>: none).     *)
(* Tables are flat: every tr is a child of its table, no table is nested   *)
(* in a cell, and every caption has an enclosing table.                    *)
(*                                                                         *)
(* Python values: a str read from a page, or made from one, is the         *)
(* sequence of its characters, each a one-character string (Chars); the    *)
(* keys the code writes as literals ("Date", "_team") are strings; None is *)
(* <<>> and a dict value v is <<v>> (Some); a dict is a function on its    *)
(* keys; list positions are 1-based here, and a column index of 0 stands   *)
(* for idx()'s None.                                                       *)
(***************************************************************************)
EXTENDS Integers, Sequences, FiniteSets, TLC

VARIABLES
    pc,            \* position: "loop", "caption", "rows", "built", "returned", "raised", "done", "aborted"
    i,             \* main: position in CLASSES of the classification in progress (0: parse called directly)
    all_by_team,   \* main: the accumulated mapping
    fetched,       \* the requests made, in order (classification codes)
    stderr,        \* the [WARN] lines printed, in order (classification codes)
    parsed,        \* classification code -> mapping returned by parse_class_page
    file,          \* data/volleyball.json: <<>> while there is none, else <<content>>, the
                   \* content [updated, by_team, whole]: the text of that document when
                   \* whole, a proper prefix of its text otherwise
    writes,        \* number of write_text calls that returned
    html,          \* parse_class_page: the document
    captions,      \* parse_class_page: soup.find_all("caption"), each with its enclosing table
    table,         \* parse_class_page: position in html of the local table (0: unbound)
    cls_code,      \* parse_class_page: the classification code argument
    by_team,       \* parse_class_page: the local mapping
    cap,           \* parse_class_page: position in find_all("caption") of the caption in progress
    team_display, team_name, key,
    headers,       \* parse_class_page: the local list headers
    header_tr,     \* parse_class_page: <<>> while unbound, else <<table, row>>
    rows,          \* parse_class_page: the local list rows
    iter,          \* parse_class_page: position in iter_tr's table of the next tr
    tds,           \* parse_class_page: the local list tds
    row            \* parse_class_page: the local dict row

vars == <<pc, i, all_by_team, fetched, stderr, parsed, file, writes, html, captions, table, cls_code,
          by_team, cap, team_display, team_name, key, headers, header_tr, rows,
          iter, tds, row>>

parse_vars == <<html, captions, table, cls_code, by_team, cap, team_display, team_name, key, headers,
                header_tr, rows, iter, tds, row>>

main_vars == <<i, all_by_team, fetched, stderr, parsed, file, writes>>

None == <<>>
Some(v) == <<v>>

\* ---------------------------------------------------------------- strings

\* the characters of the literal s from position p on
RECURSIVE CharsFrom(_, _)
CharsFrom(s, p) ==
    IF p > Len(s) THEN <<>> ELSE <<SubSeq(s, p, p)>> \o CharsFrom(s, p + 1)

\* a str, as the sequence of its characters
Chars(s) == CharsFrom(s, 1)

Contains(s, sub) ==
    \E p \in 1..(Len(s) - Len(sub) + 1) : SubSeq(s, p, p + Len(sub) - 1) = sub

\* A character is one that a string literal can hold: of the Basic Multilingual
\* Plane, and not U+2000-200A, U+2028, U+2029, U+202F, U+205F, U+3000 (whitespace
\* to the code), U+0130, U+212A (lower case i, k to the code) nor the decimal
\* digits of eighteen scripts.

\* the characters that str.isspace() is true of, which are those str.strip()
\* removes and \s matches in a str pattern: U+0009-000D, U+001C-001F, U+0020,
\* U+0085, U+00A0, U+1680
Whitespace ==
    {"\t", "\n", "", "\f", "\r", "", "", "",
     "", " ", "", " ", " "}

IsSpace(c) == c \in Whitespace

\* the characters that \d matches in a str pattern: decimal digits (category
\* Nd), ten to a line from a script's zero to its nine
DecimalDigits ==
    {"0", "1", "2", "3", "4", "5", "6", "7", "8", "9",
     "۰", "۱", "۲", "۳", "۴", "۵", "۶", "۷", "۸", "۹",
     "߀", "߁", "߂", "߃", "߄", "߅", "߆", "߇", "߈", "߉",
     "০", "১", "২", "৩", "৪", "৫", "৬", "৭", "৮", "৯",
     "૦", "૧", "૨", "૩", "૪", "૫", "૬", "૭", "૮", "૯",
     "௦", "௧", "௨", "௩", "௪", "௫", "௬", "௭", "௮", "௯",
     "೦", "೧", "೨", "೩", "೪", "೫", "೬", "೭", "೮", "೯",
     "෦", "෧", "෨", "෩", "෪", "෫", "෬", "෭", "෮", "෯",
     "໐", "໑", "໒", "໓", "໔", "໕", "໖", "໗", "໘", "໙",
     "႐", "႑", "႒", "႓", "႔", "႕", "႖", "႗", "႘", "႙",
     "០", "១", "២", "៣", "៤", "៥", "៦", "៧", "៨", "៩",
     "᧐", "᧑", "᧒", "᧓", "᧔", "᧕", "᧖", "᧗", "᧘", "᧙",
     "᪀", "᪁", "᪂", "᪃", "᪄", "᪅", "᪆", "᪇", "᪈", "᪉",
     "᪐", "᪑", "᪒", "᪓", "᪔", "᪕", "᪖", "᪗", "᪘", "᪙",
     "᮰", "᮱", "᮲", "᮳", "᮴", "᮵", "᮶", "᮷", "᮸", "᮹",
     "꣐", "꣑", "꣒", "꣓", "꣔", "꣕", "꣖", "꣗", "꣘", "꣙",
     "꧐", "꧑", "꧒", "꧓", "꧔", "꧕", "꧖", "꧗", "꧘", "꧙",
     "꧰", "꧱", "꧲", "꧳", "꧴", "꧵", "꧶", "꧷", "꧸", "꧹",
     "꯰", "꯱", "꯲", "꯳", "꯴", "꯵", "꯶", "꯷", "꯸", "꯹"}

Strip(s) ==
    IF \A p \in 1..Len(s) : IsSpace(s[p]) THEN <<>>
    ELSE SubSeq(s,
                CHOOSE p \in 1..Len(s) :
                    ~IsSpace(s[p]) /\ \A q \in 1..(p - 1) : IsSpace(s[q]),
                CHOOSE p \in 1..Len(s) :
                    ~IsSpace(s[p]) /\ \A q \in (p + 1)..Len(s) : IsSpace(s[q]))

UpperChars == Chars("ABCDEFGHIJKLMNOPQRSTUVWXYZ")
LowerChars == Chars("abcdefghijklmnopqrstuvwxyz")
DigitChars == Chars("0123456789")

\* c.lower() as far as [a-z0-9] can tell: of the characters only A-Z have a
\* lower case that holds a character of [a-z0-9]
Lower(c) ==
    IF \E p \in 1..Len(UpperChars) : UpperChars[p] = c
    THEN LowerChars[CHOOSE p \in 1..Len(UpperChars) : UpperChars[p] = c]
    ELSE c

\* [a-z0-9]
Alnum == {LowerChars[p] : p \in 1..Len(LowerChars)} \cup {DigitChars[p] : p \in 1..Len(DigitChars)}

IsAlnum(c) == c \in Alnum

\* re.sub(r"[^a-z0-9]+", "", s.lower()), for the characters of s from position p on
RECURSIVE NormFrom(_, _)
NormFrom(s, p) ==
    IF p > Len(s) THEN <<>>
    ELSE (IF IsAlnum(Lower(s[p])) THEN <<Lower(s[p])>> ELSE <<>>) \o NormFrom(s, p + 1)

norm(s) == NormFrom(s, 1)

\* the suffix of s from position p matches \s*\([\d\-]+\)\s*$
RecordSuffixAt(s, p) ==
    \E open \in p..Len(s) : \E shut \in (open + 2)..Len(s) :
        /\ s[open] = "("
        /\ s[shut] = ")"
        /\ \A q \in p..(open - 1) : IsSpace(s[q])
        /\ \A q \in (open + 1)..(shut - 1) : s[q] \in DecimalDigits \/ s[q] = "-"
        /\ \A q \in (shut + 1)..Len(s) : IsSpace(s[q])

\* re.sub(r"\s*\([\d\-]+\)\s*$", "", display).strip(): the leftmost match is cut
TeamName(display) ==
    IF \E p \in 1..Len(display) : RecordSuffixAt(display, p)
    THEN Strip(SubSeq(display, 1,
                      (CHOOSE p \in 1..Len(display) :
                          /\ RecordSuffixAt(display, p)
                          /\ \A q \in 1..(p - 1) : ~RecordSuffixAt(display, q)) - 1))
    ELSE Strip(display)

\* ------------------------------------------------------------------ cells

\* get_text(" ", strip=True): the stripped strings below the cell, the empty
\* ones dropped, joined by a space
CellText(cell) ==
    LET own == Strip(cell.text)
    IN  IF cell.cap = <<>> \/ Strip(cell.cap[1]) = <<>> THEN own
        ELSE IF own = <<>> THEN Strip(cell.cap[1])
        ELSE Strip(cell.cap[1]) \o <<" ">> \o own

RECURSIVE CellTexts(_, _)
CellTexts(tr, tags) ==
    IF tr = <<>> THEN <<>>
    ELSE (IF Head(tr).tag \in tags THEN <<CellText(Head(tr))>> ELSE <<>>)
         \o CellTexts(Tail(tr), tags)

\* tr.find("caption")
HasCaption(tr) == \E p \in 1..Len(tr) : tr[p].cap # <<>>

\* the captions below the tr from cell p on, each with its enclosing table t
RECURSIVE RowCaptions(_, _, _)
RowCaptions(tr, t, p) ==
    IF p > Len(tr) THEN <<>>
    ELSE (IF tr[p].cap # <<>> THEN <<[table |-> t, text |-> tr[p].cap[1]]>> ELSE <<>>)
         \o RowCaptions(tr, t, p + 1)

RECURSIVE TableCaptions(_, _, _)
TableCaptions(trs, t, r) ==
    IF r > Len(trs) THEN <<>>
    ELSE RowCaptions(trs[r], t, 1) \o TableCaptions(trs, t, r + 1)

\* soup.find_all("caption") in document order, from table t on; find_parent("table")
\* of each is the table it lies in
RECURSIVE CaptionsFrom(_, _)
CaptionsFrom(doc, t) ==
    IF t > Len(doc) THEN <<>>
    ELSE <<[table |-> t, text |-> doc[t].caption]>>
         \o TableCaptions(doc[t].rows, t, 1) \o CaptionsFrom(doc, t + 1)

AllCaptions(doc) == CaptionsFrom(doc, 1)

InList(x, list) == \E p \in 1..Len(list) : list[p] = x

IsHeader(hs) == hs # <<>> /\ InList(Chars("Date"), hs) /\ InList(Chars("Opponent"), hs)

\* the loop of lines 56-61 over table.find_all("tr"), from position p:
\* headers as the loop leaves it, and the row assigned to header_tr (0: none)
RECURSIVE HeaderScan(_, _)
HeaderScan(trs, p) ==
    IF p > Len(trs)
    THEN [headers |-> IF trs = <<>> THEN <<>> ELSE CellTexts(trs[Len(trs)], {"th"}),
          at |-> 0]
    ELSE LET hs == CellTexts(trs[p], {"th"})
         IN  IF IsHeader(hs) THEN [headers |-> hs, at |-> p]
             ELSE HeaderScan(trs, p + 1)

\* the dead loop of lines 43-45 leaves tds as the cell texts of the last tr
LastRowTexts(trs, old) ==
    IF trs = <<>> THEN old ELSE CellTexts(trs[Len(trs)], {"td", "th"})

COLS == <<"Date", "Opponent", "Class", "W-L", "W/L", "Score", "Points",
          "Tournament Name", "Tournament Location", "Site", "Time", "Home/Away", "Div">>

\* idx(col) over the list hs, col a key of COLS
idx(hs, col) ==
    IF InList(Chars(col), hs)
    THEN CHOOSE p \in 1..Len(hs) : hs[p] = Chars(col) /\ \A q \in 1..(p - 1) : hs[q] # Chars(col)
    ELSE 0

val_Blank(cells, n) == IF n # 0 /\ n <= Len(cells) THEN Some(cells[n]) ELSE Some(<<>>)

val(cells, n) == IF n # 0 /\ n <= Len(cells) THEN Some(cells[n]) ELSE None

Truthy(v) == v # None /\ v[1] # <<>>

EffectiveClass_Hyphen(r, code) ==
    IF "Class" \in DOMAIN r /\ Truthy(r["Class"]) /\ r["Class"] # Some(<<"-">>)
    THEN r["Class"] ELSE Some(code)

EffectiveClass(r, code) ==
    IF "Class" \in DOMAIN r /\ Truthy(r["Class"]) THEN r["Class"] ELSE Some(code)

BuildRow(hs, cells, name, display, code) ==
    LET cols   == {COLS[p] : p \in {q \in 1..Len(COLS) : idx(hs, COLS[q]) # 0}}
        fields == [c \in cols |-> val(cells, idx(hs, c))]
        tagged == ("_team" :> Some(name)) @@ ("_team_display" :> Some(display)) @@ fields
    IN  ("_class" :> EffectiveClass(tagged, code)) @@ tagged

IsBlank(r) == ~ \E k \in DOMAIN r : Truthy(r[k]) /\ r[k] # Some(<<"-">>)

IsTotalsRow(cells) == Len(cells) = 1 /\ Contains(cells[1], Chars("Total Points"))

Store(d, k, v) == [x \in DOMAIN d \cup {k} |-> IF x = k THEN v ELSE d[x]]

DictUpdate_KeepFirst(d, e) ==
    [x \in DOMAIN d \cup DOMAIN e |-> IF x \in DOMAIN d THEN d[x] ELSE e[x]]

DictUpdate(d, e) ==
    [x \in DOMAIN d \cup DOMAIN e |-> IF x \in DOMAIN e THEN e[x] ELSE d[x]]

\* lines 123-124, then the next caption
EndTable ==
    /\ by_team' = IF rows # <<>> THEN Store(by_team, key, rows) ELSE by_team
    /\ cap' = cap + 1
    /\ pc' = "caption"

\* a call parse_class_page(page, code): fresh locals
Call(page, code) ==
    /\ html' = page
    /\ captions' = AllCaptions(page)
    /\ table' = 0
    /\ cls_code' = Chars(code)
    /\ by_team' = <<>>
    /\ cap' = 1
    /\ team_display' = <<>>
    /\ team_name' = <<>>
    /\ key' = <<>>
    /\ headers' = <<>>
    /\ header_tr' = <<>>
    /\ rows' = <<>>
    /\ iter' = 0
    /\ tds' = <<>>
    /\ row' = <<>>
    /\ pc' = "caption"

\* lines 33-63 for the caption in progress
CaptionLocals ==
    LET scan == HeaderScan(html[table'].rows, 1)
    IN  /\ table' = captions[cap].table
        /\ team_display' = Strip(captions[cap].text)
        /\ team_name' = TeamName(team_display')
        /\ key' = norm(team_name')
        /\ rows' = <<>>
        /\ tds' = LastRowTexts(html[table'].rows, tds)
        /\ headers' = scan.headers
        /\ header_tr' = IF scan.at # 0 THEN <<table', scan.at>>
                       ELSE header_tr

\* line 62-63: no headers, continue
CaptionSkip ==
    /\ pc = "caption" /\ cap <= Len(captions)
    /\ CaptionLocals
    /\ headers' = <<>>
    /\ cap' = cap + 1
    /\ UNCHANGED <<pc, html, captions, cls_code, by_team, iter, row>>
    /\ UNCHANGED main_vars

\* line 85 reads header_tr while it is unbound: UnboundLocalError
CaptionRaise ==
    /\ pc = "caption" /\ cap <= Len(captions)
    /\ CaptionLocals
    /\ headers' # <<>>
    /\ header_tr' = <<>>
    /\ pc' = "raised"
    /\ UNCHANGED <<html, captions, cls_code, by_team, cap, iter, row>>
    /\ UNCHANGED main_vars

\* lines 65-85: the index map is idx(headers, .); iter_tr = the trs after header_tr
CaptionHeader ==
    /\ pc = "caption" /\ cap <= Len(captions)
    /\ CaptionLocals
    /\ headers' # <<>>
    /\ header_tr' # <<>>
    /\ iter' = header_tr'[2] + 1
    /\ pc' = "rows"
    /\ UNCHANGED <<html, captions, cls_code, by_team, cap, row>>
    /\ UNCHANGED main_vars

IterRows == html[header_tr[1]].rows

\* line 88: a tr with a caption below it, break, then lines 123-124
RowCaption ==
    /\ pc = "rows" /\ iter <= Len(IterRows)
    /\ HasCaption(IterRows[iter])
    /\ EndTable
    /\ UNCHANGED <<html, captions, table, cls_code, team_display, team_name, key, headers, header_tr,
                   rows, iter, tds, row>>
    /\ UNCHANGED main_vars

\* line 90: a tr without td cells
RowNoCells ==
    /\ pc = "rows" /\ iter <= Len(IterRows)
    /\ ~HasCaption(IterRows[iter])
    /\ tds' = CellTexts(IterRows[iter], {"td"})
    /\ tds' = <<>>
    /\ iter' = iter + 1
    /\ UNCHANGED <<pc, html, captions, table, cls_code, by_team, cap, team_display, team_name, key,
                   headers, header_tr, rows, row>>
    /\ UNCHANGED main_vars

\* lines 92-93: break, then lines 123-124
RowBreak ==
    /\ pc = "rows" /\ iter <= Len(IterRows)
    /\ ~HasCaption(IterRows[iter])
    /\ tds' = CellTexts(IterRows[iter], {"td"})
    /\ tds' # <<>>
    /\ IsTotalsRow(tds')
    /\ EndTable
    /\ UNCHANGED <<html, captions, table, cls_code, team_display, team_name, key, headers, header_tr,
                   rows, iter, row>>
    /\ UNCHANGED main_vars

\* lines 95-115
RowBuild ==
    /\ pc = "rows" /\ iter <= Len(IterRows)
    /\ ~HasCaption(IterRows[iter])
    /\ tds' = CellTexts(IterRows[iter], {"td"})
    /\ tds' # <<>>
    /\ ~IsTotalsRow(tds')
    /\ row' = BuildRow(headers, tds', team_name, team_display, cls_code)
    /\ pc' = "built"
    /\ UNCHANGED <<html, captions, table, cls_code, by_team, cap, team_display, team_name, key,
                   headers, header_tr, rows, iter>>
    /\ UNCHANGED main_vars

\* lines 118-119
RowBlank ==
    /\ pc = "built"
    /\ IsBlank(row)
    /\ iter' = iter + 1
    /\ pc' = "rows"
    /\ UNCHANGED <<html, captions, table, cls_code, by_team, cap, team_display, team_name, key,
                   headers, header_tr, rows, tds, row>>
    /\ UNCHANGED main_vars

\* line 121
RowAppend ==
    /\ pc = "built"
    /\ ~IsBlank(row)
    /\ rows' = Append(rows, row)
    /\ iter' = iter + 1
    /\ pc' = "rows"
    /\ UNCHANGED <<html, captions, table, cls_code, by_team, cap, team_display, team_name, key,
                   headers, header_tr, tds, row>>
    /\ UNCHANGED main_vars

\* iter_tr exhausted, then lines 123-124
RowsEnd ==
    /\ pc = "rows" /\ iter > Len(IterRows)
    /\ EndTable
    /\ UNCHANGED <<html, captions, table, cls_code, team_display, team_name, key, headers, header_tr,
                   rows, iter, tds, row>>
    /\ UNCHANGED main_vars

\* line 126
ParseReturn ==
    /\ pc = "caption" /\ cap > Len(captions)
    /\ pc' = "returned"
    /\ UNCHANGED parse_vars
    /\ UNCHANGED main_vars

\* ----------------------------------------------------------------- inputs
\* The texts below hold U+00A0 (what &nbsp; parses to) after "Date\t", after
\* "Omaha" and alone under Class, around the captions of Captions and of
\* TableOmaha, whose record is written with the digits U+06F1 and U+06F2, and
\* U+1680 at the end of TableX2's caption.

MaxRows == 3
MaxTables == 3
MaxTime == 2

Th(texts) == [p \in 1..Len(texts) |-> [tag |-> "th", text |-> Chars(texts[p]), cap |-> <<>>]]
Td(texts) == [p \in 1..Len(texts) |-> [tag |-> "td", text |-> Chars(texts[p]), cap |-> <<>>]]

HdrTh       == Th(<<"Date", "Opponent", "Class">>)
HdrThShort  == Th(<<"Opponent", "\n  Date\t ">>)
HdrThPlural == Th(<<"Date", "Opponents", "Class">>)
HdrTd       == Td(<<"Date", "Opponent", "Class">>)
ThOther     == Th(<<"Class", "Site">>)
DataFull    == Td(<<"9/1", " Lincoln ", "B">>)
DataNoClass == Td(<<"9/2", "Omaha ", " ">>)
DataShort   == Td(<<"9/3">>)
DataNote    == <<[tag |-> "td", text |-> Chars("9/4"), cap |-> <<Chars(" Note\n")>>]>> \o Td(<<"York", "B">>)
Dash        == Td(<<"-">>)
DashAll     == Td(<<"-", "", "-">>)
Rule        == Td(<<"">>)
TotalOne    == Td(<<"Total Points: 40">>)
TotalTwo    == Td(<<"Total Points", "40">>)
Average     == Td(<<"Average Points: 10">>)
WinPct      == Td(<<"Win %: 75">>)

RowKinds == {HdrTh, HdrThShort, HdrThPlural, HdrTd, ThOther, DataFull, DataNoClass,
             DataShort, DataNote, Dash, DashAll, Rule, TotalOne, TotalTwo, Average, WinPct}

Captions == {Chars(" Team X\n(3-1)"), Chars("")}

SeqsUpTo(S, n) == UNION {[1..m -> S] : m \in 0..n}

\* one table, any rows
SingleDocs ==
    {<<[caption |-> c, rows |-> rs]>> : c \in Captions, rs \in SeqsUpTo(RowKinds, MaxRows)}

TableX     == [caption |-> Chars("Team X (3-1)"),
               rows |-> <<HdrTh, DataFull, Rule, DataNoClass, TotalOne, DataShort>>]
TableX2    == [caption |-> Chars("\n\tteam-x "), rows |-> <<HdrThShort, ThOther, DataShort, Dash>>]
TableOmaha == [caption |-> Chars("Omaha (۱۲-0) "), rows |-> <<HdrTh, DataNoClass, DataNote, DataFull>>]
TableBlank == [caption |-> Chars(""), rows |-> <<HdrTh, DashAll, DataFull>>]
TablePlain == [caption |-> Chars("Standings"), rows |-> <<DataFull, DataShort>>]
TableStale == [caption |-> Chars("York (0-2)"), rows |-> <<DataFull, ThOther>>]

SampleTables == {TableX, TableX2, TableOmaha, TableBlank, TablePlain, TableStale}

\* several tables, each one of the samples
MultiDocs == SeqsUpTo(SampleTables, MaxTables)

Docs == SingleDocs \cup MultiDocs

ParseCodes == {"C1"}

\* the pages the six URLs may serve in a run of main
MainPages == {<<TableX, TableOmaha>>, <<TablePlain, TableX2, TableBlank>>, <<TableStale>>}

\* ------------------------------------------------------------------- main

CLASSES == <<"A", "B", "C1", "C2", "D1", "D2">>

LoopDone_Early(n) == n >= Len(CLASSES)

\* the for loop of line 130 has run out of classifications
LoopDone(n) == n > Len(CLASSES)

AfterWarn_Abort(n) == Len(CLASSES) + 1

\* after the handler of lines 135-136 the loop goes on to the next classification
AfterWarn(n) == n + 1

\* no call of parse_class_page in progress: its locals do not exist
NoFrame ==
    /\ html = <<>>
    /\ captions = <<>>
    /\ table = 0
    /\ cls_code = <<>>
    /\ by_team = <<>>
    /\ cap = 0
    /\ team_display = <<>>
    /\ team_name = <<>>
    /\ key = <<>>
    /\ headers = <<>>
    /\ header_tr = <<>>
    /\ rows = <<>>
    /\ iter = 0
    /\ tds = <<>>
    /\ row = <<>>

DropFrame ==
    /\ html' = <<>>
    /\ captions' = <<>>
    /\ table' = 0
    /\ cls_code' = <<>>
    /\ by_team' = <<>>
    /\ cap' = 0
    /\ team_display' = <<>>
    /\ team_name' = <<>>
    /\ key' = <<>>
    /\ headers' = <<>>
    /\ header_tr' = <<>>
    /\ rows' = <<>>
    /\ iter' = 0
    /\ tds' = <<>>
    /\ row' = <<>>

\* lines 132-133: fetch returns a page and parse_class_page is called on it
FetchOk ==
    /\ pc = "loop" /\ ~LoopDone(i)
    /\ \E page \in MainPages : Call(page, CLASSES[i])
    /\ fetched' = Append(fetched, CLASSES[i])
    /\ UNCHANGED <<i, all_by_team, stderr, parsed, file, writes>>

\* line 132 raises (timeout, transport error, raise_for_status), lines 135-136
FetchFail ==
    /\ pc = "loop" /\ ~LoopDone(i)
    /\ fetched' = Append(fetched, CLASSES[i])
    /\ stderr' = Append(stderr, CLASSES[i])
    /\ i' = AfterWarn(i)
    /\ UNCHANGED <<pc, all_by_team, parsed, file, writes>>
    /\ UNCHANGED parse_vars

\* line 134, with data the mapping parse_class_page returned
MergeData ==
    /\ pc = "returned" /\ i >= 1
    /\ all_by_team' = DictUpdate(all_by_team, by_team)
    /\ parsed' = (CLASSES[i] :> by_team) @@ parsed
    /\ i' = i + 1
    /\ pc' = "loop"
    /\ DropFrame
    /\ UNCHANGED <<fetched, stderr, file, writes>>

\* parse_class_page raised, lines 135-136
ParseFail ==
    /\ pc = "raised" /\ i >= 1
    /\ stderr' = Append(stderr, CLASSES[i])
    /\ i' = AfterWarn(i)
    /\ pc' = "loop"
    /\ DropFrame
    /\ UNCHANGED <<all_by_team, fetched, parsed, file, writes>>

\* the document a run before this one left in data/volleyball.json
Earlier == [updated |-> 0, by_team |-> (Chars("old") :> <<>>), whole |-> TRUE]

\* lines 138-143
WriteOut ==
    /\ pc = "loop" /\ LoopDone(i)
    /\ \E t \in 1..MaxTime :
         file' = <<[updated |-> t, by_team |-> all_by_team, whole |-> TRUE]>>
    /\ writes' = writes + 1
    /\ pc' = "done"
    /\ UNCHANGED <<i, all_by_team, fetched, stderr, parsed>>
    /\ UNCHANGED parse_vars

\* line 142 raises in open() (the directory is gone or not writable): nothing
\* catches it, and the file is as it was
WriteFail ==
    /\ pc = "loop" /\ LoopDone(i)
    /\ pc' = "aborted"
    /\ UNCHANGED <<i, all_by_team, fetched, stderr, parsed, file, writes>>
    /\ UNCHANGED parse_vars

\* line 142 raises after open(path, "w") has emptied the file (disk full, quota,
\* size limit): nothing catches it, and the file holds the part of the new text
\* that was written, which may be none of it
WriteCut ==
    /\ pc = "loop" /\ LoopDone(i)
    /\ \E t \in 1..MaxTime :
         file' = <<[updated |-> t, by_team |-> all_by_team, whole |-> FALSE]>>
    /\ pc' = "aborted"
    /\ UNCHANGED <<i, all_by_team, fetched, stderr, parsed, writes>>
    /\ UNCHANGED parse_vars

Init ==
    /\ pc = "loop"
    /\ i = 1
    /\ all_by_team = <<>>
    /\ fetched = <<>>
    /\ stderr = <<>>
    /\ parsed = <<>>
    /\ file \in {None, Some(Earlier)}
    /\ writes = 0
    /\ NoFrame

Next ==
    \/ FetchOk \/ FetchFail \/ MergeData \/ ParseFail \/ WriteOut \/ WriteFail \/ WriteCut
    \/ CaptionSkip \/ CaptionRaise \/ CaptionHeader
    \/ RowCaption \/ RowNoCells \/ RowBreak \/ RowBuild \/ RowBlank \/ RowAppend \/ RowsEnd
    \/ ParseReturn

Spec == Init /\ [][Next]_vars

\* main runs to its end or to the exception of its write: a single thread, and
\* fetch returns or raises within its timeout
FairSpec == Spec /\ WF_vars(Next)

\* parse_class_page called on its own, on every document of Docs
ParseInit ==
    /\ pc = "caption"
    /\ i = 0
    /\ all_by_team = <<>>
    /\ fetched = <<>>
    /\ stderr = <<>>
    /\ parsed = <<>>
    /\ file = <<>>
    /\ writes = 0
    /\ html \in Docs
    /\ captions = AllCaptions(html)
    /\ table = 0
    /\ cls_code \in {Chars(c) : c \in ParseCodes}
    /\ by_team = <<>>
    /\ cap = 1
    /\ team_display = <<>>
    /\ team_name = <<>>
    /\ key = <<>>
    /\ headers = <<>>
    /\ header_tr = <<>>
    /\ rows = <<>>
    /\ iter = 0
    /\ tds = <<>>
    /\ row = <<>>

ParseNext ==
    \/ CaptionSkip \/ CaptionRaise \/ CaptionHeader
    \/ RowCaption \/ RowNoCells \/ RowBreak \/ RowBuild \/ RowBlank \/ RowAppend \/ RowsEnd
    \/ ParseReturn

ParseSpec == ParseInit /\ [][ParseNext]_vars

\* ----------------------------------------------------------------- claims

Failed == {stderr[p] : p \in 1..Len(stderr)}

Written == file[1].by_team

FirstAt(hs, col) ==
    LET at == {p \in 1..Len(hs) : hs[p] = col}
    IN  IF at = {} THEN 0 ELSE CHOOSE p \in at : \A q \in at : p <= q

\* C1: whichever classifications failed (fetch or parse), main leaves its loop
\* only after every classification that did not fail was parsed, with all_by_team
\* holding exactly the keys of the classifications that did not fail, each entry
\* being the record sequence one of them returned (a failed classification
\* contributes nothing); and the document then written holds that mapping.
C1_FailureIsolation ==
    pc \in {"done", "aborted"} =>
        LET ok == {CLASSES[p] : p \in 1..Len(CLASSES)} \ Failed
        IN  /\ DOMAIN parsed = ok
            /\ DOMAIN all_by_team = UNION {DOMAIN parsed[c] : c \in ok}
            /\ \A k \in DOMAIN all_by_team :
                 \E c \in ok : k \in DOMAIN parsed[c] /\ all_by_team[k] = parsed[c][k]
            /\ pc = "done" => file # <<>> /\ file[1].whole /\ Written = all_by_team

C1_Witness ==
    /\ pc = "done"
    /\ Failed = {"B", "C1"}
    /\ parsed["A"] # <<>>
    /\ parsed["D2"] # <<>>
    /\ Chars("omaha") \in DOMAIN Written

\* C2 as claimed: a run of main that has ended has fetched the six
\* classifications and written the document exactly once.
C2_AlwaysWrites ==
    pc \in {"done", "aborted"} => fetched = CLASSES /\ writes = 1

\* C2 (safety part): the requests made are a prefix of A, B, C1, C2, D1, D2, one per
\* classification; the document is written at most once and only after all six
\* were fetched and each was warned about or parsed, and until the write is
\* attempted the file is as the run found it; a run that ends on the exception
\* of its write has fetched all six and leaves the file as it found it or holding
\* a cut-off part of the new document, never the whole of it; with six failures
\* the written by_team is empty.
C2_Order ==
    /\ Len(fetched) <= Len(CLASSES)
    /\ \A p \in 1..Len(fetched) : fetched[p] = CLASSES[p]
    /\ writes <= 1
    /\ (writes = 1) = (pc = "done")
    /\ pc \notin {"done", "aborted"} => file \in {None, Some(Earlier)}
    /\ pc = "aborted" =>
         /\ fetched = CLASSES
         /\ \/ file \in {None, Some(Earlier)}
            \/ /\ ~file[1].whole
               /\ file[1].by_team = all_by_team
               /\ file[1].updated >= 1
    /\ pc = "done" =>
         /\ fetched = CLASSES
         /\ file # <<>> /\ file[1].whole /\ file[1].updated >= 1
         /\ Len(stderr) + Cardinality(DOMAIN parsed) = Len(CLASSES)
         /\ (Len(stderr) = Len(CLASSES) => Written = <<>>)

\* C2 amended: every run of main keeps C2_Order and ends, with the document
\* written once or with the exception of its one write, which leaves the file
\* untouched or cut off.
C2_Terminates == []C2_Order /\ <>(pc \in {"done", "aborted"})

C2_Witness ==
    /\ pc = "done"
    /\ stderr = CLASSES
    /\ writes = 1
    /\ Written = <<>>

\* C3: when main has finished, every key of by_team maps to exactly the record
\* sequence returned for it by the last classification, in the order of CLASSES,
\* whose page yielded that key.
C3_LastSourceWins ==
    pc = "done" =>
        \A k \in DOMAIN Written :
            LET have == {p \in 1..Len(CLASSES) :
                           CLASSES[p] \in DOMAIN parsed /\ k \in DOMAIN parsed[CLASSES[p]]}
                last == CHOOSE p \in have : \A q \in have : q <= p
            IN  have # {} /\ Written[k] = parsed[CLASSES[last]][k]

C3_Witness ==
    /\ pc = "done"
    /\ DOMAIN parsed = {"A", "B"}
    /\ Chars("teamx") \in DOMAIN parsed["A"]
    /\ Chars("teamx") \in DOMAIN parsed["B"]
    /\ parsed["A"][Chars("teamx")] # parsed["B"][Chars("teamx")]
    /\ Written[Chars("teamx")] = parsed["B"][Chars("teamx")]

\* the labels of a row as the claims read them: th and td cells alike,
\* "Opponents" taken as "Opponent"
Labels(tr) ==
    LET texts == CellTexts(tr, {"th", "td"})
    IN  {IF texts[p] = Chars("Opponents") THEN Chars("Opponent") ELSE texts[p] :
           p \in 1..Len(texts)}

DateOpponentRows(t) ==
    {p \in 1..Len(t.rows) : {Chars("Date"), Chars("Opponent")} \subseteq Labels(t.rows[p])}

\* C4: a table with no row containing both "Date" and "Opponent" is skipped
\* silently: parse_class_page neither raises on it nor iterates rows for it.
C4_SkippedSilently ==
    pc \in {"rows", "built", "raised"} => DateOpponentRows(html[table]) # {}

Markers == {Chars("Total Points"), Chars("Average Points"), Chars("Win %")}

HasMarker(tr) ==
    LET texts == CellTexts(tr, {"th", "td"})
    IN  \E p \in 1..Len(texts) : \E m \in Markers : Contains(texts[p], m)

\* C5: no record is built from a row at or after the first row following the
\* header in which some cell contains "Total Points", "Average Points" or "Win %".
C5_StopsAtSummary ==
    pc = "built" => \A p \in (header_tr[2] + 1)..iter : ~HasMarker(IterRows[p])

\* C6: every record kept has a column field that is neither missing, empty nor
\* a bare hyphen.
C6_BlankDropped ==
    \A n \in 1..Len(rows) :
        \E p \in 1..Len(COLS) :
            /\ COLS[p] \in DOMAIN rows[n]
            /\ rows[n][COLS[p]] \notin {None, Some(<<>>), Some(<<"-">>)}

\* C7: the header row used for a table is its first row whose th or td texts,
\* "Opponents" read as "Opponent", include "Date" and "Opponent"; a table is
\* skipped for want of headers only if it has no such row.
C7_HeaderRow ==
    /\ (pc \in {"rows", "built"} /\ header_tr[1] = table) =>
          /\ DateOpponentRows(html[table]) # {}
          /\ \A p \in DateOpponentRows(html[table]) : header_tr[2] <= p
    /\ (pc = "caption" /\ cap > 1 /\ headers = <<>>) =>
          DateOpponentRows(html[table]) = {}

\* C8: the _class of a row just built is the text of its cell under the first
\* "Class" header when there is such a header, the row reaches it and the text
\* is not empty, and cls_code otherwise; and every record kept carries its own
\* non-empty Class as _class, cls_code otherwise.
C8_EffectiveClass ==
    /\ pc = "built" =>
         LET at == FirstAt(headers, Chars("Class"))
         IN  row["_class"] =
                IF at # 0 /\ at <= Len(tds) /\ tds[at] # <<>> THEN Some(tds[at])
                ELSE Some(cls_code)
    /\ \A n \in 1..Len(rows) :
         rows[n]["_class"] =
            IF "Class" \in DOMAIN rows[n] /\ rows[n]["Class"] \notin {None, Some(<<>>)}
            THEN rows[n]["Class"] ELSE Some(cls_code)

C8_Witness ==
    /\ pc = "built"
    /\ Len(rows) = 1
    /\ headers = <<Chars("Date"), Chars("Opponent"), Chars("Class")>>
    /\ rows[1]["Class"] = Some(Chars("B"))
    /\ rows[1]["_class"] = Some(Chars("B"))
    /\ row["Class"] = Some(<<>>)
    /\ row["_class"] = Some(cls_code)
    /\ cls_code # Chars("B")

\* C9 as claimed: a column field is present in a row just built only if its
\* column is in the header and within the row's td cells, and it is never null.
C9_OmittedOutOfRange ==
    pc = "built" =>
        \A p \in 1..Len(COLS) :
            COLS[p] \in DOMAIN row =>
                /\ FirstAt(headers, Chars(COLS[p])) # 0
                /\ FirstAt(headers, Chars(COLS[p])) <= Len(tds)
                /\ row[COLS[p]] # None

\* C9 amended: a column field is present in a row just built exactly when its
\* column is in the header; its value is the text of the td cell at the
\* column's first position, and null when the row has no td cell there.
C9_NullOutOfRange ==
    pc = "built" =>
        \A p \in 1..Len(COLS) :
            LET at == FirstAt(headers, Chars(COLS[p]))
            IN  /\ (COLS[p] \in DOMAIN row) = (at # 0)
                /\ at # 0 =>
                     row[COLS[p]] = IF at <= Len(tds) THEN Some(tds[at]) ELSE None

C9_Witness ==
    /\ pc = "built"
    /\ headers = <<Chars("Date"), Chars("Opponent"), Chars("Class")>>
    /\ tds = <<Chars("9/3")>>
    /\ row["Date"] = Some(Chars("9/3"))
    /\ row["Opponent"] = None
    /\ "Site" \notin DOMAIN row

\* C10: the rows iterated for a caption are rows of that caption's own table.
C10_OwnTable ==
    pc \in {"rows", "built"} => header_tr[1] = table

====
